---- MODULE Spec2Model ----
(***************************************************************************)
(* Tennis.API: a proxy in front of the ATP JSON endpoints.                 *)
(*                                                                         *)
(* The module models                                                       *)
(*   - the match identifier generators        (utils/match_ids.py),        *)
(*   - the registry loader and its cache,                                  *)
(*     the identifier resolver, the upstream                               *)
(*     fetcher and the two match routes       (api/matches.py),            *)
(*   - the head-to-head fetcher and its route (utils/atp_h2h.py,           *)
(*                                              api/h2h.py).               *)
(*                                                                         *)
(* Python values are tagged records (the tag is the Python type), text is  *)
(* a sequence of one-character strings so that str(), lower(), isdigit(),  *)
(* int() and the format specification 03d are computed character by        *)
(* character.  An operation that may raise returns either                  *)
(* [exc |-> FALSE, val |-> v] or [exc |-> TRUE, ...].                      *)
(***************************************************************************)
EXTENDS Integers, Sequences, FiniteSets, TLC

VARIABLES
    file,    \* data/tournament_registry.json as it is on disk
    cache,   \* the module global _TOURNAMENTS_CACHE
    pc,      \* "idle" | "responded" (server), "call" | "done" (function specs)
    resp,    \* the response of the request just handled
    calls,   \* the outbound calls the request just handled has issued, in order
    opened,  \* whether the request just handled has opened the registry file
    args,    \* the arguments of the function under study
    ret      \* its result

vars == <<file, cache, pc, resp, calls, opened, args, ret>>

(***************************************************************************)
(* Bounds of the model.                                                    *)
(***************************************************************************)
\* largest draw size handed to generate_match_ids in SpecIds
MaxDraw == 130
\* most candidate identifiers per request the upstream answers otherwise than 404
MaxSpecial == 2

(***************************************************************************)
(* Python values.                                                          *)
(***************************************************************************)
None == [ty |-> "none"]
PInt(n) == [ty |-> "int", i |-> n]
PBool(b) == [ty |-> "bool", b |-> b]
PFloat(whole) == [ty |-> "float", whole |-> whole]
PStr(s) == [ty |-> "str", s |-> s]
PList(l) == [ty |-> "list", l |-> l]
PDict(d) == [ty |-> "dict", d |-> d]

\* The empty dict: a function with no key.
EmptyMap == <<>>

\* bool(v)
Truthy(v) ==
    CASE v.ty = "none" -> FALSE
      [] v.ty = "int" -> v.i # 0
      [] v.ty = "bool" -> v.b
      [] v.ty = "float" -> v.whole # 0
      [] v.ty = "str" -> Len(v.s) > 0
      [] v.ty = "list" -> Len(v.l) > 0
      [] v.ty = "dict" -> DOMAIN v.d # {}

\* a or b
PyOr(a, b) == IF Truthy(a) THEN a ELSE b

\* d.get(k, default) on the keys of a dict
MapGet(d, k, default) == IF k \in DOMAIN d THEN d[k] ELSE default

DigitChars == <<"0", "1", "2", "3", "4", "5", "6", "7", "8", "9">>

IsDigitChar(c) == \E k \in 1..10 : DigitChars[k] = c

DigitValue(c) == (CHOOSE k \in 1..10 : DigitChars[k] = c) - 1

\* The decimal digits of a natural number, most significant first.
RECURSIVE Digits(_)
Digits(n) ==
    IF n < 10 THEN <<DigitChars[n + 1]>>
    ELSE Digits(n \div 10) \o <<DigitChars[(n % 10) + 1]>>

\* format(n, "0{w}d") for n >= 0: pad on the left with zeros to at least w characters.
RECURSIVE ZeroPad(_, _)
ZeroPad(s, w) == IF Len(s) >= w THEN s ELSE ZeroPad(<<"0">> \o s, w)

\* The number a sequence of decimal digits denotes.
RECURSIVE ParseDigits(_)
ParseDigits(s) ==
    IF s = <<>> THEN 0
    ELSE 10 * ParseDigits(SubSeq(s, 1, Len(s) - 1)) + DigitValue(s[Len(s)])

\* isinstance(v, int): bool is a subclass of int.
IsInstanceInt(v) == v.ty \in {"int", "bool"}

\* The integer an int or a bool compares as.
IntValue(v) == IF v.ty = "bool" THEN (IF v.b THEN 1 ELSE 0) ELSE v.i

(***************************************************************************)
(* utils/match_ids.py                                                      *)
(***************************************************************************)
\* f"{prefix}{i:03d}" for i in range(1, n + 1)
NumberedIds(prefix, n) == [i \in 1..n |-> prefix \o ZeroPad(Digits(i), 3)]

\* generate_match_ids with range(1, total_matches + 2): one identifier too many.
generate_match_ids_all(draw_size) ==
    IF ~IsInstanceInt(draw_size) \/ IntValue(draw_size) < 2 THEN <<>>
    ELSE NumberedIds(<<"m", "s">>, IntValue(draw_size))

generate_match_ids(draw_size) ==
    IF ~IsInstanceInt(draw_size) \/ IntValue(draw_size) < 2 THEN <<>>
    ELSE NumberedIds(<<"m", "s">>, IntValue(draw_size) - 1)

generate_qualifier_ids(max_qualy) ==
    IF ~IsInstanceInt(max_qualy) \/ IntValue(max_qualy) <= 0 THEN <<>>
    ELSE NumberedIds(<<"q", "s">>, IntValue(max_qualy))

(***************************************************************************)
(* SpecIds: generate_match_ids applied to one argument.                    *)
(***************************************************************************)
NoRet == [none |-> TRUE]

NoResp == [op |-> "none"]

\* The arguments tried: every int from -2 to MaxDraw and 1001, both bools, a float, a
\* numeric string and None.
DrawArgs ==
    {PInt(n) : n \in (-2..MaxDraw) \cup {1001}}
    \cup {PBool(TRUE), PBool(FALSE), PFloat(32), PStr(<<"3", "2">>), None}

InitIds ==
    /\ file = [st |-> "missing"]
    /\ cache = None
    /\ resp = NoResp
    /\ calls = <<>>
    /\ opened = FALSE
    /\ pc = "call"
    /\ args \in {[fn |-> "generate_match_ids", draw_size |-> d] : d \in DrawArgs}
    /\ ret = NoRet

CallGenerateMatchIds ==
    /\ pc = "call"
    /\ args.fn = "generate_match_ids"
    /\ ret' = [val |-> generate_match_ids(args.draw_size)]
    /\ pc' = "done"
    /\ UNCHANGED <<file, cache, resp, calls, opened, args>>

NextIds == CallGenerateMatchIds

SpecIds == InitIds /\ [][NextIds]_vars

\* The identifier "ms" + the decimal digits of i, padded with zeros to three
\* digits (a number of four digits or more is written without padding).
IsMainDrawId(id, i) ==
    /\ Len(id) >= 5
    /\ id[1] = "m"
    /\ id[2] = "s"
    /\ \A k \in 3..Len(id) : IsDigitChar(id[k])
    /\ Len(id) > 5 => id[3] # "0"
    /\ ParseDigits(SubSeq(id, 3, Len(id))) = i

\* C6: for an integer draw size D >= 2 generate_match_ids(D) is the D-1
\* identifiers "ms001", "ms002", ... in ascending order, without gap or repeat;
\* for D < 2 or an argument that is not an integer it is the empty list.
C6_MainDrawIds ==
    (pc = "done" /\ args.fn = "generate_match_ids") =>
        LET d == args.draw_size
            ids == ret.val
        IN  IF d.ty = "int" /\ d.i >= 2
            THEN /\ Len(ids) = d.i - 1
                 /\ \A i \in 1..Len(ids) : IsMainDrawId(ids[i], i)
            ELSE ids = <<>>

\* A draw of 128 has been expanded (three-digit sequence numbers occur).
C6_Witness ==
    /\ pc = "done"
    /\ args.fn = "generate_match_ids"
    /\ args.draw_size = PInt(128)
    /\ Len(ret.val) = 127
    /\ ret.val[127] = <<"m", "s", "1", "2", "7">>

(***************************************************************************)
(* Text.                                                                   *)
(***************************************************************************)
UpperChars ==
    <<"A", "B", "C", "D", "E", "F", "G", "H", "I", "J", "K", "L", "M",
      "N", "O", "P", "Q", "R", "S", "T", "U", "V", "W", "X", "Y", "Z">>

LowerChars ==
    <<"a", "b", "c", "d", "e", "f", "g", "h", "i", "j", "k", "l", "m",
      "n", "o", "p", "q", "r", "s", "t", "u", "v", "w", "x", "y", "z">>

\* The character U+00B2 (superscript two): a digit to str.isdigit, no decimal digit.
SuperscriptTwo == "U+00B2"

LowerChar(c) ==
    IF \E k \in 1..26 : UpperChars[k] = c
    THEN LowerChars[CHOOSE k \in 1..26 : UpperChars[k] = c]
    ELSE c

\* s.lower()
StrLower(s) == [k \in 1..Len(s) |-> LowerChar(s[k])]

\* s.isdigit(): not empty, and every character has the Unicode property Digit.
StrIsDigit(s) ==
    /\ Len(s) > 0
    /\ \A k \in 1..Len(s) : IsDigitChar(s[k]) \/ s[k] = SuperscriptTwo

\* str(v)
PyStrOf(v) ==
    CASE v.ty = "str" -> v.s
      [] v.ty = "none" -> <<"N", "o", "n", "e">>
      [] v.ty = "bool" -> IF v.b THEN <<"T", "r", "u", "e">>
                          ELSE <<"F", "a", "l", "s", "e">>
      [] v.ty = "int" -> IF v.i < 0 THEN <<"-">> \o Digits(-v.i) ELSE Digits(v.i)
      [] v.ty = "float" -> Digits(v.whole) \o <<".", "0">>

(***************************************************************************)
(* Dicts that are iterated: the pairs in insertion order.                  *)
(***************************************************************************)
DictHas(od, k) == \E i \in 1..Len(od) : od[i].key = k

\* od.get(k): the value, or None
DictGet(od, k) ==
    IF DictHas(od, k) THEN od[CHOOSE i \in 1..Len(od) : od[i].key = k].val
    ELSE None

\* od[k] = v: a key already there keeps its place, a new one goes last.
DictSet(od, k, v) ==
    IF DictHas(od, k)
    THEN [i \in 1..Len(od) |-> IF od[i].key = k THEN [key |-> k, val |-> v] ELSE od[i]]
    ELSE Append(od, [key |-> k, val |-> v])

(***************************************************************************)
(* api/matches.py: the registry and the resolver.                          *)
(***************************************************************************)
\* {str(t["Id"]): t for t in items if "Id" in t}, built left to right onto acc
RECURSIVE RegistryOfItems(_, _)
RegistryOfItems(items, acc) ==
    IF items = <<>> THEN acc
    ELSE LET t == Head(items)
         IN  RegistryOfItems(
                 Tail(items),
                 IF "Id" \in DOMAIN t THEN DictSet(acc, PyStrOf(t["Id"]), t) ELSE acc)

\* resolve_tournament_id: the identifier as a str, or None
resolve_tournament_id(tournament_id_or_name, tournaments) ==
    LET key == tournament_id_or_name
        lowered == StrLower(key)
        hits == {i \in 1..Len(tournaments) :
                    StrLower(PyStrOf(MapGet(tournaments[i].val, "Name", PStr(<<>>))))
                        = lowered}
    IN  IF DictHas(tournaments, key) THEN PStr(key)
        ELSE IF hits # {}
             THEN PStr(tournaments[CHOOSE i \in hits : \A j \in hits : i <= j].key)
        ELSE IF StrIsDigit(key) THEN PStr(key)
        ELSE None

(***************************************************************************)
(* SpecResolve: the loader's mapping and resolve_tournament_id applied to  *)
(* one registry file and one input.                                        *)
(***************************************************************************)
\* most records in a registry file
MaxRecords == 2

T_580 == <<"5", "8", "0">>
T_339 == <<"3", "3", "9">>
T_1 == <<"1">>
T_7 == <<"7">>
T_9999 == <<"9", "9", "9", "9">>
T_Doha == <<"D", "o", "h", "a">>
T_doha == <<"d", "o", "h", "a">>
T_DOHA == <<"D", "O", "H", "A">>
T_Rome == <<"R", "o", "m", "e">>
T_rome == <<"r", "o", "m", "e">>
T_none == <<"n", "o", "n", "e">>
T_None == <<"N", "o", "n", "e">>
T_58a == <<"5", "8", "a">>
T_not_a_thing == <<"n", "o", "-", "t">>

\* A key the JSON object does not have.
Absent == [ty |-> "absent"]

\* One object of the registry file.  build_tournament_registry writes Id as a
\* str and Name and SglDrawSize as the calendar has them (null when it has
\* none); it also writes DblDrawSize and Type, which the server never reads.
Rec(id, name, sgl) ==
    LET at(k) == CASE k = "Id" -> id [] k = "Name" -> name [] k = "SglDrawSize" -> sgl
    IN  [k \in {k \in {"Id", "Name", "SglDrawSize"} : at(k) # Absent} |-> at(k)]

SeqsUpTo(S, n) == UNION {[1..k -> S] : k \in 0..n}

\* The registry script merges by Id, so a file holds each Id once.
UniqueIds(items) ==
    \A i, j \in 1..Len(items) :
        (i < j /\ "Id" \in DOMAIN items[i] /\ "Id" \in DOMAIN items[j])
            => PyStrOf(items[i]["Id"]) # PyStrOf(items[j]["Id"])

ResolveRecords ==
    {Rec(id, name, PInt(32)) :
        id \in {PStr(T_580), PStr(T_1), PInt(7)},
        name \in {PStr(T_Doha), PStr(T_DOHA), PStr(T_Rome), None}}
    \cup {Rec(Absent, PStr(T_Doha), PInt(32))}

ResolveFiles == {items \in SeqsUpTo(ResolveRecords, MaxRecords) : UniqueIds(items)}

\* A path parameter is never empty.
ResolveInputs ==
    {T_580, T_1, T_7, T_9999, T_Doha, T_doha, T_DOHA, T_rome, T_none, T_None,
     T_58a, T_not_a_thing, <<SuperscriptTwo>>}

IsPermutation(a, b) ==
    /\ Len(a) = Len(b)
    /\ \E f \in [1..Len(a) -> 1..Len(a)] :
        /\ \A i, j \in 1..Len(a) : i # j => f[i] # f[j]
        /\ \A i \in 1..Len(a) : b[i] = a[f[i]]

InitResolve ==
    /\ file = [st |-> "missing"]
    /\ cache = None
    /\ resp = NoResp
    /\ calls = <<>>
    /\ opened = FALSE
    /\ pc = "call"
    /\ ret = NoRet
    /\ \E items \in ResolveFiles, input \in ResolveInputs :
        \/ args = [fn |-> "resolve_tournament_id", items |-> items, input |-> input]
        \/ \E other \in ResolveFiles :
            /\ IsPermutation(items, other)
            /\ args = [fn |-> "load_and_resolve", items |-> items,
                       reordered |-> other, input |-> input]

\* resolve_tournament_id(input, mapping of the file)
CallResolve ==
    /\ pc = "call"
    /\ args.fn = "resolve_tournament_id"
    /\ LET tournaments == RegistryOfItems(args.items, <<>>)
       IN  ret' = [tournaments |-> tournaments,
                   val |-> resolve_tournament_id(args.input, tournaments)]
    /\ pc' = "done"
    /\ UNCHANGED <<file, cache, resp, calls, opened, args>>

\* The identifier and the record the input resolves to against a file.
Lookup(items, input) ==
    LET tournaments == RegistryOfItems(items, <<>>)
        tid == resolve_tournament_id(input, tournaments)
    IN  [id |-> tid,
         record |-> IF tid = None THEN None ELSE DictGet(tournaments, tid.s)]

\* The same input against the file and against the file in another order.
CallLoadAndResolve ==
    /\ pc = "call"
    /\ args.fn = "load_and_resolve"
    /\ ret' = [first |-> Lookup(args.items, args.input),
               second |-> Lookup(args.reordered, args.input)]
    /\ pc' = "done"
    /\ UNCHANGED <<file, cache, resp, calls, opened, args>>

NextResolve == CallResolve \/ CallLoadAndResolve

SpecResolve == InitResolve /\ [][NextResolve]_vars

\* The input is made of decimal digits only.
AllDecimal(s) == Len(s) > 0 /\ \A k \in 1..Len(s) : IsDigitChar(s[k])

\* The record has a display name and it equals the input ignoring case.
NamedIgnoringCase(t, input) ==
    /\ "Name" \in DOMAIN t
    /\ t["Name"].ty = "str"
    /\ StrLower(t["Name"].s) = StrLower(input)

\* C4: resolve_tournament_id applies four rules, the first that matches decides:
\* a key of the registry is returned; else the identifier of a record whose
\* display name equals the input ignoring case; else an input of decimal digits
\* is returned unchanged; else None.
C4_ResolutionRules ==
    (pc = "done" /\ args.fn = "resolve_tournament_id") =>
        LET reg == ret.tournaments
            input == args.input
            named == {i \in 1..Len(reg) : NamedIgnoringCase(reg[i].val, input)}
        IN  IF DictHas(reg, input) THEN ret.val = PStr(input)
            ELSE IF named # {} THEN \E i \in named : ret.val = PStr(reg[i].key)
            ELSE IF AllDecimal(input) THEN ret.val = PStr(input)
            ELSE ret.val = None

\* C5: the identifier and the record an input resolves to are the same for two
\* registry files that hold the same records in different orders.
C5_OrderIrrelevant ==
    (pc = "done" /\ args.fn = "load_and_resolve") => ret.first = ret.second

(***************************************************************************)
(* api/matches.py: the loader with its cache.                              *)
(***************************************************************************)
\* The loaded mapping, a value that is not None even when it has no key.
Loaded(od) == [ty |-> "registry", od |-> od]

\* An HTTPException(status, detail) that has been raised.
Raised(status, detail) == [exc |-> TRUE, status |-> status, detail |-> detail]

\* Any other exception that has been raised.
RaisedError(name) == [exc |-> TRUE, error |-> name]

Returned(v) == [exc |-> FALSE, val |-> v]

\* load_tournament_registry without the test of the cache: every call reads the file.
load_tournament_registry_uncached(c, f) ==
    IF f.st = "missing"
    THEN [result |-> Raised(500, "Missing data file"), cache |-> c, read |-> FALSE]
    ELSE IF f.st = "invalid"
    THEN [result |-> Raised(500, "Invalid JSON"), cache |-> c, read |-> TRUE]
    ELSE LET m == Loaded(RegistryOfItems(f.items, <<>>))
         IN  [result |-> Returned(m), cache |-> m, read |-> TRUE]

\* load_tournament_registry with the global c and the file f: what it returns or
\* raises, the global afterwards, and whether the file has been opened.
load_tournament_registry(c, f) ==
    IF c # None
    THEN [result |-> Returned(c), cache |-> c, read |-> FALSE]
    ELSE IF f.st = "missing"
    THEN [result |-> Raised(500, "Missing data file"), cache |-> c, read |-> FALSE]
    ELSE IF f.st = "invalid"
    THEN [result |-> Raised(500, "Invalid JSON"), cache |-> c, read |-> TRUE]
    ELSE LET m == Loaded(RegistryOfItems(f.items, <<>>))
         IN  [result |-> Returned(m), cache |-> m, read |-> TRUE]

(***************************************************************************)
(* The upstream at the time of one request: what it answers for each match *)
(* identifier.  It answers 404 for every identifier it does not list.      *)
(***************************************************************************)
\* httpx.RequestError: a timeout, a refused or a broken connection
NetworkFailure == [kind |-> "failure"]

\* A response whose body is JSON text of the value v.
JsonResponse(status, v) == [kind |-> "response", status |-> status, json |-> TRUE, body |-> v]

\* A response whose body is no JSON text.
TextResponse(status) == [kind |-> "response", status |-> status, json |-> FALSE]

NotFound404 == TextResponse(404)

UpstreamAt(upstream, mid) ==
    IF \E e \in upstream : e.mid = mid
    THEN (CHOOSE e \in upstream : e.mid = mid).outcome
    ELSE NotFound404

\* fetch_match: client.get is outside the try, so its exception leaves the function.
fetch_match(upstream, mid) ==
    LET r == UpstreamAt(upstream, mid)
    IN  IF r.kind = "failure" THEN RaisedError("httpx.RequestError")
        ELSE IF r.status # 200 THEN Returned(None)
        ELSE IF ~r.json THEN Returned(None)
        ELSE Returned(r.body)

(***************************************************************************)
(* api/matches.py: the payload helpers.                                    *)
(***************************************************************************)
\* d.get(k) on a dict value
Get(d, k) == MapGet(d.d, k, None)

\* _get(obj, path, default), the path given as its keys
RECURSIVE _get(_, _, _)
_get(obj, path, default) ==
    IF path = <<>> THEN obj
    ELSE IF obj.ty # "dict" THEN default
    ELSE LET cur == Get(obj, Head(path))
         IN  IF cur = None THEN default ELSE _get(cur, Tail(path), default)

\* _has_match_id without the legacy (top level) location
_has_match_id_wrapped_only(payload) ==
    /\ payload.ty = "dict"
    /\ Get(payload, "Match").ty = "dict"
    /\ Truthy(Get(Get(payload, "Match"), "MatchId"))

_has_match_id(payload) ==
    IF payload.ty # "dict" THEN FALSE
    ELSE IF Get(payload, "Match").ty = "dict" /\ Truthy(Get(Get(payload, "Match"), "MatchId"))
    THEN TRUE
    ELSE IF Truthy(Get(payload, "MatchId")) THEN TRUE
    ELSE FALSE

(***************************************************************************)
(* api/matches.py: flatten_match_data.                                     *)
(***************************************************************************)
\* Keys of a dict are equal when they compare equal: True == 1 == 1.0.
KeyNorm(k) ==
    CASE k.ty = "bool" -> PInt(IF k.b THEN 1 ELSE 0)
      [] k.ty = "float" -> PInt(k.whole)
      [] OTHER -> k

KeyIndex(od, k) == {i \in 1..Len(od) : KeyNorm(od[i].key) = KeyNorm(k)}

\* od[k] = v for a dict with keys of any type: an equal key keeps the key object
\* first inserted and takes the new value.
KeyedSet(od, k, v) ==
    IF KeyIndex(od, k) # {}
    THEN [i \in 1..Len(od) |-> IF i \in KeyIndex(od, k) THEN [key |-> od[i].key, val |-> v]
                                ELSE od[i]]
    ELSE Append(od, [key |-> k, val |-> v])

\* od.get(k, {})
KeyedGet(od, k) ==
    IF KeyIndex(od, k) # {} THEN od[CHOOSE i \in KeyIndex(od, k) : TRUE].val
    ELSE PDict(EmptyMap)

\* {s.get("SetNumber"): s for s in sets if isinstance(s, dict)}, onto acc
RECURSIVE BySetNumber(_, _)
BySetNumber(sets, acc) ==
    IF sets = <<>> THEN acc
    ELSE LET e == Head(sets)
         IN  BySetNumber(Tail(sets),
                 IF e.ty = "dict" THEN KeyedSet(acc, Get(e, "SetNumber"), e) ELSE acc)

\* set(a.keys()) | set(b.keys()): the keys of a, then those of b equal to none of a
KeyUnion(a, b) ==
    {a[i].key : i \in 1..Len(a)}
    \cup {b[i].key : i \in {j \in 1..Len(b) : KeyIndex(a, b[j].key) = {}}}

\* sorted(S) for a set of ints and bools no two of which are equal
RECURSIVE SortedKeys(_)
SortedKeys(S) ==
    IF S = {} THEN <<>>
    ELSE LET least == CHOOSE k \in S : \A o \in S : IntValue(k) <= IntValue(o)
         IN  <<least>> \o SortedKeys(S \ {least})

\* player_obj(p)
player_obj(p) ==
    IF p.ty # "dict" \/ ~Truthy(Get(p, "PlayerId")) THEN None
    ELSE PDict([player_id |-> Get(p, "PlayerId"),
                first_name |-> Get(p, "PlayerFirstName"),
                last_name |-> Get(p, "PlayerLastName"),
                country |-> Get(p, "PlayerCountry")])

\* The score list of flatten_match_data for the two Sets values.
ScoreList(p1_sets, p2_sets) ==
    IF ~(p1_sets.ty = "list" /\ p2_sets.ty = "list" /\ (Truthy(p1_sets) \/ Truthy(p2_sets)))
    THEN <<>>
    ELSE LET p1_by_set == BySetNumber(p1_sets.l, <<>>)
             p2_by_set == BySetNumber(p2_sets.l, <<>>)
             set_numbers == SortedKeys({k \in KeyUnion(p1_by_set, p2_by_set) :
                                           IsInstanceInt(k) /\ IntValue(k) >= 1})
             entry(n) ==
                 LET s1 == KeyedGet(p1_by_set, n)
                     s2 == KeyedGet(p2_by_set, n)
                     tb1 == Get(s1, "TieBreakScore")
                     tb2 == Get(s2, "TieBreakScore")
                 IN  PDict([set |-> n,
                            p1 |-> Get(s1, "SetScore"),
                            p2 |-> Get(s2, "SetScore"),
                            tiebreak |-> IF tb1 = None /\ tb2 = None THEN None
                                         ELSE PDict([p1 |-> tb1, p2 |-> tb2])])
         IN  [i \in 1..Len(set_numbers) |-> entry(set_numbers[i])]

flatten_match_data(payload) ==
    IF payload.ty # "dict" THEN PDict(EmptyMap)
    ELSE LET tournament == IF Get(payload, "Tournament").ty = "dict"
                           THEN Get(payload, "Tournament") ELSE PDict(EmptyMap)
             match == IF Get(payload, "Match").ty = "dict"
                      THEN Get(payload, "Match") ELSE payload
             p1 == PyOr(_get(match, <<"PlayerTeam", "Player">>, None), PDict(EmptyMap))
             p2 == PyOr(_get(match, <<"OpponentTeam", "Player">>, None), PDict(EmptyMap))
             players == SelectSeq(<<player_obj(p1), player_obj(p2)>>, Truthy)
             score == ScoreList(_get(match, <<"PlayerTeam1", "Sets">>, PList(<<>>)),
                                _get(match, <<"PlayerTeam2", "Sets">>, PList(<<>>)))
         IN  PDict([
                 match_id |-> PyOr(Get(match, "MatchId"), Get(payload, "MatchId")),
                 event_id |-> Get(tournament, "EventId"),
                 event_year |-> Get(tournament, "EventYear"),
                 event_name |-> Get(tournament, "EventDisplayName"),
                 tournament_name |-> Get(tournament, "TournamentName"),
                 city |-> Get(tournament, "TournamentCity"),
                 surface |-> PyOr(PyOr(Get(tournament, "Court"), Get(match, "Surface")),
                                  Get(payload, "Surface")),
                 round |-> PyOr(PyOr(_get(match, <<"Round", "ShortName">>, None),
                                     Get(match, "RoundName")),
                                Get(match, "Round")),
                 status |-> PyOr(PyOr(Get(match, "Status"), Get(match, "MatchStatus")),
                                 Get(payload, "Status")),
                 is_doubles |-> Get(match, "IsDoubles"),
                 winner_id |-> PyOr(PyOr(Get(match, "WinningPlayerId"), Get(match, "Winner")),
                                    Get(payload, "Winner")),
                 players |-> PyOr(PList(players), None),
                 score |-> PyOr(PList(score), None),
                 duration |-> PyOr(Get(match, "MatchTimeTotal"), Get(match, "MatchTime"))])

(***************************************************************************)
(* SpecFlatten: flatten_match_data applied to one payload.                 *)
(***************************************************************************)
\* most elements in the Sets array of one side in SpecFlatten
MaxSets == 2

\* The elements of a Sets array tried: set 1, set 1 again with a tiebreak, set 2
\* won to love, set number 1.0, set number true, set number 0, and a string.
SetElements ==
    {PDict([SetNumber |-> PInt(1), SetScore |-> PInt(6)]),
     PDict([SetNumber |-> PInt(1), SetScore |-> PInt(7), TieBreakScore |-> PInt(5)]),
     PDict([SetNumber |-> PInt(2), SetScore |-> PInt(0)]),
     PDict([SetNumber |-> PFloat(1), SetScore |-> PInt(3)]),
     PDict([SetNumber |-> PBool(TRUE), SetScore |-> PInt(4)]),
     PDict([SetNumber |-> PInt(0), SetScore |-> PInt(6)]),
     PStr(<<"6", "4">>)}

\* What a side holds: nothing, a Sets array, or a Sets value that is no array.
SideValues ==
    {PDict(EmptyMap), PDict([Sets |-> PDict(EmptyMap)])}
    \cup {PDict([Sets |-> PList(l)]) : l \in SeqsUpTo(SetElements, MaxSets)}

\* A payload of the wrapped shape with the two sides.
SetsPayload(team1, team2) ==
    PDict([Match |-> PDict([MatchId |-> PStr(<<"m", "s", "0", "0", "1">>),
                            PlayerTeam1 |-> team1,
                            PlayerTeam2 |-> team2])])

InitFlatten ==
    /\ file = [st |-> "missing"]
    /\ cache = None
    /\ resp = NoResp
    /\ calls = <<>>
    /\ opened = FALSE
    /\ pc = "call"
    /\ ret = NoRet
    /\ \E team1 \in SideValues, team2 \in SideValues :
        args = [fn |-> "flatten_match_data", team1 |-> team1, team2 |-> team2]

CallFlattenMatchData ==
    /\ pc = "call"
    /\ args.fn = "flatten_match_data"
    /\ ret' = [val |-> flatten_match_data(SetsPayload(args.team1, args.team2))]
    /\ pc' = "done"
    /\ UNCHANGED <<file, cache, resp, calls, opened, args>>

NextFlatten == CallFlattenMatchData

SpecFlatten == InitFlatten /\ [][NextFlatten]_vars

\* The elements of a side's Sets array, none when the side has no array.
SetsOf(team) ==
    IF "Sets" \in DOMAIN team.d /\ team.d["Sets"].ty = "list" THEN team.d["Sets"].l ELSE <<>>

\* The positions of the elements of a Sets array that list set number n.
Listing(sets, n) ==
    {i \in 1..Len(sets) : sets[i].ty = "dict" /\ Get(sets[i], "SetNumber") = PInt(n)}

\* The integers >= 1 a Sets array lists as set numbers.
SetNumbersOf(sets) ==
    {Get(sets[i], "SetNumber").i :
        i \in {j \in 1..Len(sets) : /\ sets[j].ty = "dict"
                                     /\ Get(sets[j], "SetNumber").ty = "int"
                                     /\ Get(sets[j], "SetNumber").i >= 1}}

\* The games of the last element that lists set number n, None when none does.
GamesOf(sets, n) ==
    IF Listing(sets, n) = {} THEN None
    ELSE Get(sets[CHOOSE i \in Listing(sets, n) : \A j \in Listing(sets, n) : j <= i],
             "SetScore")

\* C12: a score list that is not empty has set numbers that are integers >= 1
\* in strictly ascending order, one entry for each integer >= 1 that either
\* side's Sets array lists as a set number and no other entry; an entry's games
\* of a side are those of the last element of that side that lists the number,
\* and None, not zero, when the side does not list it.
C12_ScoreBySetNumber ==
    (pc = "done" /\ args.fn = "flatten_match_data" /\ ret.val.d.score # None) =>
        LET score == ret.val.d.score.l
            sets1 == SetsOf(args.team1)
            sets2 == SetsOf(args.team2)
        IN  IF \E k \in 1..Len(score) : score[k].d.set.ty # "int" THEN FALSE
            ELSE /\ \A k \in 1..Len(score) : score[k].d.set.i >= 1
                 /\ \A j, k \in 1..Len(score) :
                        j < k => score[j].d.set.i < score[k].d.set.i
                 /\ {score[k].d.set.i : k \in 1..Len(score)}
                        = SetNumbersOf(sets1) \cup SetNumbersOf(sets2)
                 /\ \A k \in 1..Len(score) :
                        /\ score[k].d.p1 = GamesOf(sets1, score[k].d.set.i)
                        /\ score[k].d.p2 = GamesOf(sets2, score[k].d.set.i)

(***************************************************************************)
(* api/matches.py: the two routes.                                         *)
(***************************************************************************)
MAX_QUALIFIERS == 20

\* The draw size taken for a tournament without a stored one.
DefaultDrawSize == 32

\* int(v)
PyInt(v) ==
    CASE v.ty = "int" -> Returned(v.i)
      [] v.ty = "bool" -> Returned(IF v.b THEN 1 ELSE 0)
      [] v.ty = "float" -> Returned(v.whole)
      [] v.ty = "str" -> IF Len(v.s) > 0 /\ \A k \in 1..Len(v.s) : IsDigitChar(v.s[k])
                         THEN Returned(ParseDigits(v.s))
                         ELSE RaisedError("ValueError")
      [] OTHER -> RaisedError("TypeError")

\* The response of a raised HTTPException.
ErrorResponse(status, detail) == [status |-> status, body |-> [detail |-> detail]]

\* The response the framework gives for an exception no handler catches.
ServerError(name) == [status |-> 500, body |-> [detail |-> "Internal Server Error", error |-> name]]

\* What a route has done: its response, the outbound calls it issued, the
\* global afterwards and whether it opened the registry file.
Outcome(response, issued, ld) ==
    [response |-> response, calls |-> issued, cache |-> ld.cache, read |-> ld.read]

\* The loop of get_tournament_matches over ids (no identifier occurs twice in
\* them): the identifiers are requested in order up to the first whose request
\* raises, and each payload that is truthy and has a match identifier is stored
\* under its identifier, in that order.
Probe(ids, upstream, flatten) ==
    LET data(i) == fetch_match(upstream, ids[i])
        raising == {i \in 1..Len(ids) : data(i).exc}
        last == IF raising = {} THEN Len(ids)
                ELSE CHOOSE i \in raising : \A j \in raising : i <= j
        kept == {i \in 1..last :
                    /\ ~data(i).exc
                    /\ Truthy(data(i).val)
                    /\ _has_match_id(data(i).val)}
        nth(r) == CHOOSE i \in kept : Cardinality({j \in kept : j <= i}) = r
    IN  [matches |-> [r \in 1..Cardinality(kept) |->
                        [key |-> ids[nth(r)],
                         val |-> IF flatten THEN flatten_match_data(data(nth(r)).val)
                                 ELSE data(nth(r)).val]],
         calls |-> SubSeq(ids, 1, last),
         exc |-> raising # {}]

\* get_tournament_matches with the global c and the file f.
get_tournament_matches(c, f, year, tournament_id, flatten, upstream) ==
    LET ld == load_tournament_registry(c, f)
        tournaments == ld.result.val.od
        tid_resolved == resolve_tournament_id(tournament_id, tournaments)
        tournament == DictGet(tournaments, tid_resolved.s)
        known == tournament # None /\ DOMAIN tournament # {}
        draw_size == IF known
                     THEN PyInt(MapGet(tournament, "SglDrawSize", PInt(DefaultDrawSize)))
                     ELSE Returned(DefaultDrawSize)
        all_match_ids == generate_match_ids(PInt(draw_size.val))
                         \o generate_qualifier_ids(PInt(MAX_QUALIFIERS))
        probed == Probe(all_match_ids, upstream, flatten)
    IN  IF ld.result.exc
        THEN Outcome(ErrorResponse(ld.result.status, ld.result.detail), <<>>, ld)
        ELSE IF ~Truthy(tid_resolved)
        THEN Outcome(ErrorResponse(404, "Invalid tournament ID or name"), <<>>, ld)
        ELSE IF draw_size.exc
        THEN Outcome(ServerError(draw_size.error), <<>>, ld)
        ELSE IF probed.exc
        THEN Outcome(ServerError("httpx.RequestError"), probed.calls, ld)
        ELSE Outcome([status |-> 200,
                      body |-> [tournament |-> IF known THEN MapGet(tournament, "Name", None)
                                               ELSE PStr(<<"U", "n", "k", "n", "o", "w", "n">>),
                                tournament_id |-> tid_resolved,
                                year |-> year,
                                matches |-> probed.matches]],
                     probed.calls, ld)

\* get_single_match with the global c and the file f.
get_single_match(c, f, year, tournament_id, match_id, flatten, upstream) ==
    LET ld == load_tournament_registry(c, f)
        tournaments == ld.result.val.od
        tid_resolved == resolve_tournament_id(tournament_id, tournaments)
        data == fetch_match(upstream, match_id)
        tournament == DictGet(tournaments, tid_resolved.s)
    IN  IF ld.result.exc
        THEN Outcome(ErrorResponse(ld.result.status, ld.result.detail), <<>>, ld)
        ELSE IF ~Truthy(tid_resolved)
        THEN Outcome(ErrorResponse(404, "Invalid tournament ID or name"), <<>>, ld)
        ELSE IF data.exc
        THEN Outcome(ServerError(data.error), <<match_id>>, ld)
        ELSE IF ~Truthy(data.val)
        THEN Outcome(ErrorResponse(404, "Match not found"), <<match_id>>, ld)
        ELSE Outcome([status |-> 200,
                      body |-> [tournament |->
                                    IF tournament = None
                                    THEN PStr(<<"U", "n", "k", "n", "o", "w", "n">>)
                                    ELSE MapGet(tournament, "Name",
                                                PStr(<<"U", "n", "k", "n", "o", "w", "n">>)),
                                tournament_id |-> tid_resolved,
                                year |-> year,
                                match_id |-> match_id,
                                match_data |-> IF flatten THEN flatten_match_data(data.val)
                                               ELSE data.val]],
                     <<match_id>>, ld)

(***************************************************************************)
(* utils/atp_h2h.py: parse_result_string.                                  *)
(***************************************************************************)
Space == " "

\* The character U+000A.
LineFeed == "U+000A"

IsSpaceChar(c) == c \in {Space, LineFeed}

\* c.upper()
UpperChar(c) ==
    IF \E k \in 1..26 : LowerChars[k] = c
    THEN UpperChars[CHOOSE k \in 1..26 : LowerChars[k] = c]
    ELSE c

StrUpper(s) == [k \in 1..Len(s) |-> UpperChar(s[k])]

\* s.strip().split(): the maximal runs of characters that are no whitespace
SplitWhitespace(s) ==
    LET starts == {i \in 1..Len(s) : ~IsSpaceChar(s[i]) /\ (i = 1 \/ IsSpaceChar(s[i - 1]))}
        nth(r) == CHOOSE i \in starts : Cardinality({j \in starts : j <= i}) = r
        stop(i) == CHOOSE j \in i..Len(s) :
                       /\ \A k \in i..j : ~IsSpaceChar(s[k])
                       /\ (j = Len(s) \/ IsSpaceChar(s[j + 1]))
    IN  [r \in 1..Cardinality(starts) |-> SubSeq(s, nth(r), stop(nth(r)))]

\* The tokens that end a result: retirement, walkover, default, abandonment, bye,
\* cancellation.
StopTokens ==
    {<<"R", "E", "T">>, <<"W", "/", "O">>, <<"W", "O">>, <<"D", "E", "F">>,
     <<"A", "B", "N">>, <<"B", "Y", "E">>, <<"C", "A", "N", "C">>}

\* _SET_TOKEN_RE.match(tok) for a token without whitespace: the two groups, or
\* no match.  The first group is the longest run of digits the token starts with.
MatchSetToken(tok) ==
    LET n == Cardinality({i \in 1..Len(tok) : \A k \in 1..i : IsDigitChar(tok[k])})
        rest == SubSeq(tok, n + 1, Len(tok))
    IN  IF n = 0 THEN [matched |-> FALSE]
        ELSE IF rest = <<>>
        THEN [matched |-> TRUE, digits |-> SubSeq(tok, 1, n), tb |-> None]
        ELSE IF /\ Len(rest) >= 3
                /\ rest[1] = "("
                /\ rest[Len(rest)] = ")"
                /\ \A k \in 2..(Len(rest) - 1) : IsDigitChar(rest[k])
        THEN [matched |-> TRUE, digits |-> SubSeq(tok, 1, n),
              tb |-> PStr(SubSeq(rest, 2, Len(rest) - 1))]
        ELSE [matched |-> FALSE]

\* The loop of parse_result_string over the tokens left.
RECURSIVE ParseTokens(_, _, _)
ParseTokens(tokens, out, set_num) ==
    IF tokens = <<>> THEN out
    ELSE LET tok == Head(tokens)
             m == MatchSetToken(tok)
         IN  IF StrUpper(tok) \in StopTokens THEN out
             ELSE IF ~m.matched \/ Len(m.digits) < 2
             THEN ParseTokens(Tail(tokens), out, set_num)
             ELSE ParseTokens(
                      Tail(tokens),
                      Append(out, PDict([set |-> PInt(set_num + 1),
                                         p1 |-> PInt(DigitValue(m.digits[1])),
                                         p2 |-> PInt(DigitValue(m.digits[2])),
                                         tiebreak |-> IF m.tb = None THEN None
                                                      ELSE PInt(ParseDigits(m.tb.s))])),
                      set_num + 1)

\* parse_result_string with `continue` in the place of `break`: a marker is
\* skipped and the tokens after it are still read.
parse_result_string_no_stop(result) ==
    IF ~Truthy(result) \/ result.ty # "str" THEN None
    ELSE LET notMarker(tok) == StrUpper(tok) \notin StopTokens
         IN  PyOr(PList(ParseTokens(SelectSeq(SplitWhitespace(result.s), notMarker), <<>>, 0)),
                  None)

parse_result_string(result) ==
    IF ~Truthy(result) \/ result.ty # "str" THEN None
    ELSE PyOr(PList(ParseTokens(SplitWhitespace(result.s), <<>>, 0)), None)

(***************************************************************************)
(* SpecParse: parse_result_string applied to one argument.                 *)
(***************************************************************************)
\* most tokens in a result string handed to parse_result_string in SpecParse
MaxTokens == 3

\* The tokens tried: sets with and without tiebreak (one of 0), three digits, one digit with
\* and without tiebreak, markers in three spellings, a word that starts like a
\* marker, empty parentheses, a digit followed by a letter.
ResultTokens ==
    {<<"6", "1">>, <<"7", "6", "(", "7", ")">>, <<"7", "6", "(", "0", ")">>,
     <<"1", "0", "(", "1", "2", ")">>,
     <<"7", "6", "4">>, <<"2">>, <<"2", "(", "7", ")">>,
     <<"R", "E", "T">>, <<"R", "e", "t">>, <<"w", "/", "o">>, <<"R", "E", "T", "D">>,
     <<"7", "6", "(", ")">>, <<"6", "a">>}

\* The whitespace put between two tokens, and whether the string also starts and
\* ends with whitespace.
ResultLayouts ==
    {[sep |-> <<Space>>, padded |-> FALSE], [sep |-> <<LineFeed, Space>>, padded |-> TRUE]}

\* The tokens written one after the other with sep between them.
RECURSIVE JoinTokens(_, _)
JoinTokens(tokens, sep) ==
    IF tokens = <<>> THEN <<>>
    ELSE IF Len(tokens) = 1 THEN tokens[1]
    ELSE tokens[1] \o sep \o JoinTokens(Tail(tokens), sep)

\* The result string of the tokens in a layout.
ResultString(tokens, layout) ==
    IF layout.padded THEN <<Space>> \o JoinTokens(tokens, layout.sep) \o <<LineFeed>>
    ELSE JoinTokens(tokens, layout.sep)

\* The values that are no result string: None, a number, a list.
NonStringResults == {None, PInt(64), PInt(0), PList(<<PStr(<<"6", "1">>)>>)}

InitParse ==
    /\ file = [st |-> "missing"]
    /\ cache = None
    /\ resp = NoResp
    /\ calls = <<>>
    /\ opened = FALSE
    /\ pc = "call"
    /\ ret = NoRet
    /\ \/ \E tokens \in SeqsUpTo(ResultTokens, MaxTokens), layout \in ResultLayouts :
            args = [fn |-> "parse_result_string", tokens |-> tokens,
                    result |-> PStr(ResultString(tokens, layout))]
       \/ \E v \in NonStringResults :
            args = [fn |-> "parse_result_string", tokens |-> <<>>, result |-> v]

CallParseResultString ==
    /\ pc = "call"
    /\ args.fn = "parse_result_string"
    /\ ret' = [val |-> parse_result_string(args.result)]
    /\ pc' = "done"
    /\ UNCHANGED <<file, cache, resp, calls, opened, args>>

NextParse == CallParseResultString

SpecParse == InitParse /\ [][NextParse]_vars

\* The token equals a non-completion marker ignoring case.
IsMarker(tok) == \E marker \in StopTokens : StrLower(tok) = StrLower(marker)

\* The token is two or more digits, then nothing or a number in parentheses.
IsSetToken(tok) ==
    \E n \in 2..Len(tok) :
        /\ \A k \in 1..n : IsDigitChar(tok[k])
        /\ \/ n = Len(tok)
           \/ /\ Len(tok) >= n + 3
              /\ tok[n + 1] = "("
              /\ tok[Len(tok)] = ")"
              /\ \A k \in (n + 2)..(Len(tok) - 1) : IsDigitChar(tok[k])

\* The number in the parentheses of a set token, None without parentheses.
TiebreakOf(tok) ==
    IF tok[Len(tok)] # ")" THEN None
    ELSE LET open == CHOOSE k \in 1..Len(tok) : tok[k] = "("
         IN  PInt(ParseDigits(SubSeq(tok, open + 1, Len(tok) - 1)))

\* C11: parse_result_string reads the tokens left to right up to the first
\* marker (RET, W/O, WO, DEF, ABN, BYE, CANC in any case); each token before it
\* that is two or more digits with an optional tiebreak in parentheses gives one
\* set, p1 the first digit, p2 the second, tiebreak the number in parentheses or
\* None; every other token is skipped; the sets are numbered 1, 2, ..., n in
\* token order; without any set, or for a value that is no string, the result
\* is None.
C11_SetsUpToMarker ==
    (pc = "done" /\ args.fn = "parse_result_string") =>
        LET toks == args.tokens
            markers == {i \in 1..Len(toks) : IsMarker(toks[i])}
            accepted == {i \in 1..Len(toks) :
                            /\ \A j \in markers : i < j
                            /\ IsSetToken(toks[i])}
            rank(i) == Cardinality({j \in accepted : j <= i})
        IN  IF args.result.ty # "str" \/ accepted = {} THEN ret.val = None
            ELSE /\ ret.val.ty = "list"
                 /\ Len(ret.val.l) = Cardinality(accepted)
                 /\ \A i \in accepted :
                        ret.val.l[rank(i)] =
                            PDict([set |-> PInt(rank(i)),
                                   p1 |-> PInt(DigitValue(toks[i][1])),
                                   p2 |-> PInt(DigitValue(toks[i][2])),
                                   tiebreak |-> TiebreakOf(toks[i])])

\* "61 2 RET" has given exactly one set, 6-1 without tiebreak.
C11_Witness ==
    /\ pc = "done"
    /\ args.fn = "parse_result_string"
    /\ args.result = PStr(<<"6", "1", Space, "2", Space, "R", "E", "T">>)
    /\ ret.val = PList(<<PDict([set |-> PInt(1), p1 |-> PInt(6), p2 |-> PInt(1),
                                tiebreak |-> None])>>)

(***************************************************************************)
(* utils/atp_h2h.py: flatten_h2h_matches.                                  *)
(***************************************************************************)
RECURSIVE Concat(_)
Concat(seqs) == IF seqs = <<>> THEN <<>> ELSE Head(seqs) \o Concat(Tail(seqs))

IsDict(v) == v.ty = "dict"

\* The dicts a for loop over v meets, for v a list.
DictsOf(v) == IF v.ty = "list" THEN SelectSeq(v.l, IsDict) ELSE <<>>

\* The record flatten_h2h_matches appends for one match of one tournament.
H2HMatchRecord(tournament, match) ==
    LET rnd == PyOr(Get(match, "Round"), PDict(EmptyMap))
        result == Get(match, "ResultString")
        pt == IF Get(match, "PlayerTeam").ty = "dict" THEN Get(match, "PlayerTeam") ELSE None
        sets == IF Truthy(pt) THEN Get(pt, "Sets") ELSE None
    IN  PDict([
            tournament |-> PyOr(PyOr(Get(tournament, "TournamentName"),
                                     Get(tournament, "EventDisplayName")),
                                Get(tournament, "EventName")),
            year |-> Get(tournament, "EventYear"),
            round |-> IF rnd.ty = "dict" THEN Get(rnd, "ShortName") ELSE None,
            winner |-> Get(match, "Winner"),
            surface |-> Get(tournament, "Surface"),
            indoor_outdoor |-> Get(tournament, "InOutdoorDisplay"),
            match_id |-> Get(match, "MatchId"),
            result |-> result,
            sets |-> IF Truthy(result) THEN parse_result_string(result) ELSE None,
            player_team |-> Get(match, "PlayerTeam"),
            opponent_team |-> Get(match, "OpponentTeam"),
            upstream_sets |->
                IF sets.ty = "list"
                THEN PList([i \in 1..Len(sets.l) |->
                               PDict([set_number |-> Get(sets.l[i], "SetNumber"),
                                      player_games |-> Get(sets.l[i], "SetScore"),
                                      player_tiebreak |-> Get(sets.l[i], "TieBreakScore"),
                                      won_set |-> Get(sets.l[i], "WonSet")])])
                ELSE None,
            match_stats_url |-> Get(match, "MatchStatsUrl"),
            reason |-> Get(match, "Reason")])

\* The records of one tournament, in the order of its match list.
H2HTournamentRecords(tournament) ==
    LET match_list == PyOr(PyOr(Get(tournament, "MatchResults"), Get(tournament, "Matches")),
                           PList(<<>>))
        matches == DictsOf(match_list)
    IN  [i \in 1..Len(matches) |-> H2HMatchRecord(tournament, matches[i])]

\* flatten_h2h_matches for a payload whose sections, match lists and Sets are
\* lists (or missing) and whose Sets hold dicts.
flatten_h2h_matches(raw_json) ==
    LET section(name) ==
            LET tournaments == DictsOf(PyOr(Get(raw_json, name), PList(<<>>)))
            IN  Concat([i \in 1..Len(tournaments) |-> H2HTournamentRecords(tournaments[i])])
    IN  PList(section("Tournaments") \o section("OtherTournaments"))

(***************************************************************************)
(* utils/atp_h2h.py: fetch_head_to_head; api/h2h.py: the route.            *)
(***************************************************************************)
IsAsciiAlnum(c) ==
    \/ IsDigitChar(c)
    \/ \E k \in 1..26 : UpperChars[k] = c \/ LowerChars[k] = c

\* _PLAYER_CODE_RE.match(s) for ^[A-Za-z0-9]+$ : "$" also matches just before a
\* line feed that ends the text.
PlayerCodeMatches(s) ==
    LET body == IF Len(s) > 0 /\ s[Len(s)] = LineFeed THEN SubSeq(s, 1, Len(s) - 1) ELSE s
    IN  Len(body) > 0 /\ \A k \in 1..Len(body) : IsAsciiAlnum(body[k])

\* The url has a control character in it.
UrlHasControl(player1_id, player2_id) ==
    \/ \E k \in 1..Len(player1_id) : player1_id[k] = LineFeed
    \/ \E k \in 1..Len(player2_id) : player2_id[k] = LineFeed

\* What fetch_head_to_head has done: what it returned or raised and the calls it issued.
Fetched(result, issued) == [result |-> result, calls |-> issued]

\* An HTTPException whose detail embeds the upstream status.
RaisedUpstream(upstream_status) ==
    [exc |-> TRUE, status |-> 502, detail |-> "Upstream ATP error (status N)",
     upstream_status |-> upstream_status]

\* fetch_head_to_head without the test for 404.
fetch_head_to_head_no_404(player1_id, player2_id, outcome, strict_url) ==
    LET call == <<[player1_id |-> player1_id, player2_id |-> player2_id]>>
    IN  IF ~PlayerCodeMatches(player1_id) \/ ~PlayerCodeMatches(player2_id)
        THEN Fetched(Raised(400, "Player IDs must be alphanumeric ATP player codes"), <<>>)
        ELSE IF strict_url /\ UrlHasControl(player1_id, player2_id)
        THEN Fetched(RaisedError("httpx.InvalidURL"), <<>>)
        ELSE IF outcome.kind = "failure"
        THEN Fetched(Raised(502, "Upstream ATP request failed"), call)
        ELSE IF outcome.status # 200
        THEN Fetched(RaisedUpstream(outcome.status), call)
        ELSE IF ~outcome.json
        THEN Fetched(Raised(502, "Upstream ATP returned invalid JSON"), call)
        ELSE Fetched(Returned(outcome.body), call)

\* fetch_head_to_head when the upstream answers the call with outcome.  The
\* client either refuses a url with a control character (strict_url) or sends it.
fetch_head_to_head(player1_id, player2_id, outcome, strict_url) ==
    LET call == <<[player1_id |-> player1_id, player2_id |-> player2_id]>>
    IN  IF ~PlayerCodeMatches(player1_id) \/ ~PlayerCodeMatches(player2_id)
        THEN Fetched(Raised(400, "Player IDs must be alphanumeric ATP player codes"), <<>>)
        ELSE IF strict_url /\ UrlHasControl(player1_id, player2_id)
        THEN Fetched(RaisedError("httpx.InvalidURL"), <<>>)
        ELSE IF outcome.kind = "failure"
        THEN Fetched(Raised(502, "Upstream ATP request failed"), call)
        ELSE IF outcome.status = 404
        THEN Fetched(Raised(404, "Head-to-head not found"), call)
        ELSE IF outcome.status # 200
        THEN Fetched(RaisedUpstream(outcome.status), call)
        ELSE IF ~outcome.json
        THEN Fetched(Raised(502, "Upstream ATP returned invalid JSON"), call)
        ELSE Fetched(Returned(outcome.body), call)

\* get_head_to_head: its response and the calls it issued.
get_head_to_head(player1_id, player2_id, flatten, outcome, strict_url) ==
    LET fetched == fetch_head_to_head(player1_id, player2_id, outcome, strict_url)
        r == fetched.result
        failed == ErrorResponse(500, "Failed to fetch head-to-head data")
    IN  [calls |-> fetched.calls,
         response |->
            IF r.exc /\ "status" \in DOMAIN r
            THEN [status |-> r.status, body |-> [k \in DOMAIN r \ {"exc", "status"} |-> r[k]]]
            ELSE IF r.exc THEN failed
            ELSE IF ~flatten THEN [status |-> 200, body |-> r.val]
            ELSE IF r.val.ty # "dict" THEN failed
            ELSE [status |-> 200,
                  body |-> [playerLeft |-> Get(r.val, "playerLeft"),
                            playerRight |-> Get(r.val, "playerRight"),
                            matches |-> flatten_h2h_matches(r.val)]]]

(***************************************************************************)
(* Spec: the server.  A request is handled as a whole and its response     *)
(* delivered before the next one is taken.                                 *)
(***************************************************************************)
NoArgs == [fn |-> "none"]

M_ms001 == <<"m", "s", "0", "0", "1">>
M_ms003 == <<"m", "s", "0", "0", "3">>
M_qs020 == <<"q", "s", "0", "2", "0">>

SetEntry(n, games) == PDict([SetNumber |-> PInt(n), SetScore |-> PInt(games)])

\* A payload of the wrapped shape.
WrappedPayload ==
    PDict([Tournament |-> PDict([EventId |-> PInt(580), TournamentName |-> PStr(T_Doha)]),
           Match |-> PDict([MatchId |-> PStr(M_ms001),
                            PlayerTeam1 |-> PDict([Sets |-> PList(<<SetEntry(1, 6), SetEntry(2, 7)>>)]),
                            PlayerTeam2 |-> PDict([Sets |-> PList(<<SetEntry(1, 4)>>)])])])

\* A payload of the legacy shape.
LegacyPayload == PDict([MatchId |-> PStr(M_ms003), Winner |-> PStr(<<"D", "H", "5", "8">>)])

\* A placeholder: a tournament and no match.
PlaceholderPayload == PDict([Tournament |-> PDict([EventId |-> PInt(580)])])

\* What the upstream may answer for an identifier, other than a plain 404.
UpstreamOutcomes ==
    {NetworkFailure, TextResponse(200), JsonResponse(500, WrappedPayload),
     JsonResponse(200, WrappedPayload), JsonResponse(200, LegacyPayload),
     JsonResponse(200, PlaceholderPayload), JsonResponse(200, PDict(EmptyMap))}

\* The identifiers the upstream may answer otherwise than 404.
SpecialIds == {M_ms001, M_ms003, M_qs020}

\* The upstreams of a request: at most MaxSpecial identifiers with an outcome each.
Upstreams ==
    UNION {{{[mid |-> m, outcome |-> g[m]] : m \in D} : g \in [D -> UpstreamOutcomes]} :
              D \in {X \in SUBSET SpecialIds : Cardinality(X) <= MaxSpecial}}

RegistryFileA ==
    <<Rec(PStr(T_580), PStr(T_Doha), PInt(4)),
      Rec(PStr(T_339), PStr(T_Rome), None),
      Rec(PInt(7), None, Absent)>>

RegistryFileB ==
    <<Rec(PStr(T_580), PStr(T_Doha), PInt(1)),
      Rec(Absent, PStr(T_Rome), PInt(8)),
      Rec(PStr(T_1), PStr(T_Rome), PStr(<<"2">>))>>

FileStates ==
    {[st |-> "missing"], [st |-> "invalid"],
     [st |-> "ok", items |-> RegistryFileA], [st |-> "ok", items |-> RegistryFileB]}

TournamentInputs == {T_580, T_doha, T_339, T_rome, T_7, T_9999, T_not_a_thing}

Years == {2024}

Init ==
    /\ file \in FileStates
    /\ cache = None
    /\ pc = "idle"
    /\ resp = NoResp
    /\ calls = <<>>
    /\ opened = FALSE
    /\ args = NoArgs
    /\ ret = NoRet

\* The registry file is rewritten, removed or damaged.
WriteFile ==
    /\ pc = "idle"
    /\ file' \in FileStates \ {file}
    /\ UNCHANGED <<cache, pc, resp, calls, opened, args, ret>>

\* The request has been handled as o says.
Respond(request, o) ==
    /\ args' = request
    /\ resp' = o.response
    /\ calls' = o.calls
    /\ cache' = o.cache
    /\ opened' = o.read
    /\ pc' = "responded"
    /\ UNCHANGED <<file, ret>>

\* GET /atp/matches/{year}/{tournament_id}
GetTournamentMatches ==
    /\ pc = "idle"
    /\ \E year \in Years, tid \in TournamentInputs, flatten \in BOOLEAN, upstream \in Upstreams :
        Respond([fn |-> "get_tournament_matches", year |-> year, tournament_id |-> tid,
                 flatten |-> flatten, upstream |-> upstream],
                get_tournament_matches(cache, file, year, tid, flatten, upstream))

\* GET /atp/matches/{year}/{tournament_id}/{match_id}
GetSingleMatch ==
    /\ pc = "idle"
    /\ \E year \in Years, tid \in TournamentInputs, mid \in SpecialIds, flatten \in BOOLEAN,
          outcome \in UpstreamOutcomes \cup {NotFound404} :
        LET upstream == {[mid |-> mid, outcome |-> outcome]}
        IN  Respond([fn |-> "get_single_match", year |-> year, tournament_id |-> tid,
                     match_id |-> mid, flatten |-> flatten, upstream |-> upstream],
                    get_single_match(cache, file, year, tid, mid, flatten, upstream))

C_DH58 == <<"D", "H", "5", "8">>
C_n409 == <<"n", "4", "0", "9">>
C_dash == <<"D", "-", "8">>
C_DH58_LF == <<"D", "H", "5", "8", LineFeed>>

PlayerCodes == {C_DH58, C_n409, C_dash, C_DH58_LF}

T_result == <<"6", "4", Space, "7", "6", "(", "7", ")", Space, "2", Space, "R", "E", "T", Space, "6", "3">>

\* A head-to-head payload: one tournament of the data-feed shape and one of the
\* website shape.
H2HPayload ==
    PDict([playerLeft |-> PDict([PlayerId |-> PStr(C_DH58)]),
           playerRight |-> PDict([PlayerId |-> PStr(C_n409)]),
           Tournaments |-> PList(<<
               PDict([TournamentName |-> PStr(T_Doha),
                      EventYear |-> PInt(2024),
                      MatchResults |-> PList(<<
                          PDict([MatchId |-> PStr(M_ms001),
                                 Round |-> PDict([ShortName |-> PStr(<<"F">>)]),
                                 Winner |-> PStr(C_DH58),
                                 PlayerTeam |-> PDict([Sets |-> PList(<<SetEntry(1, 6)>>)])])>>)])>>),
           OtherTournaments |-> PList(<<
               PDict([EventDisplayName |-> PStr(T_Rome),
                      Matches |-> PList(<<
                          PDict([MatchId |-> PStr(M_ms003),
                                 ResultString |-> PStr(T_result)]),
                          PInt(0)>>)])>>)])

\* What the upstream may answer to the head-to-head call.
H2HOutcomes ==
    {NetworkFailure, TextResponse(404), TextResponse(500), JsonResponse(503, H2HPayload),
     TextResponse(200), JsonResponse(200, H2HPayload),
     JsonResponse(200, PList(<<H2HPayload>>))}

\* GET /atp/h2h/{player1_id}/{player2_id}
GetHeadToHead ==
    /\ pc = "idle"
    /\ \E p1 \in PlayerCodes, p2 \in PlayerCodes, flatten \in BOOLEAN,
          outcome \in H2HOutcomes, strict_url \in BOOLEAN :
        LET o == get_head_to_head(p1, p2, flatten, outcome, strict_url)
        IN  Respond([fn |-> "get_head_to_head", player1_id |-> p1, player2_id |-> p2,
                     flatten |-> flatten, outcome |-> outcome, strict_url |-> strict_url],
                    [response |-> o.response, calls |-> o.calls, cache |-> cache,
                     read |-> FALSE])

\* The response is sent and the next request can be taken.
Deliver ==
    /\ pc = "responded"
    /\ pc' = "idle"
    /\ resp' = NoResp
    /\ calls' = <<>>
    /\ opened' = FALSE
    /\ args' = NoArgs
    /\ UNCHANGED <<file, cache, ret>>

Next == WriteFile \/ GetTournamentMatches \/ GetSingleMatch \/ GetHeadToHead \/ Deliver

Spec == Init /\ [][Next]_vars

(***************************************************************************)
(* Properties of the match routes.                                         *)
(***************************************************************************)
\* A request of the route fn has been handled.
Handled(fn) == pc = "responded" /\ args.fn = fn

\* The registry was there for the request just handled.
RegistryLoaded == cache # None

\* The tournament of the request just handled resolves.
TournamentResolves ==
    RegistryLoaded /\ Truthy(resolve_tournament_id(args.tournament_id, cache.od))

\* The draw size of the tournament a 200 response is about.
DrawSizeOfResponse ==
    LET t == DictGet(cache.od, resp.body.tournament_id.s)
    IN  IF t = None \/ "SglDrawSize" \notin DOMAIN t THEN DefaultDrawSize
        ELSE IF t["SglDrawSize"].ty = "str" THEN ParseDigits(t["SglDrawSize"].s)
        ELSE t["SglDrawSize"].i

\* generate_match_ids(D) followed by generate_qualifier_ids(20)
CandidateIds(D) == generate_match_ids(PInt(D)) \o generate_qualifier_ids(PInt(MAX_QUALIFIERS))

\* The dict carries a match identifier under MatchId.
CarriesId(d) == "MatchId" \in DOMAIN d.d /\ d.d["MatchId"].ty = "str" /\ d.d["MatchId"].s # <<>>

\* The upstream answered 200 with a parseable body that carries a match identifier.
AnsweredWithMatch(outcome) ==
    /\ outcome.kind = "response"
    /\ outcome.status = 200
    /\ outcome.json
    /\ outcome.body.ty = "dict"
    /\ \/ CarriesId(outcome.body)
       \/ "Match" \in DOMAIN outcome.body.d /\ outcome.body.d["Match"].ty = "dict"
            /\ CarriesId(outcome.body.d["Match"])

\* C1: a timeout or connection failure for one candidate does not abort
\* get_tournament_matches: the answer is 200, every qualifier identifier after
\* the failing one has been requested too, and the matches of the other
\* candidates are in the answer.
C1_FailureDoesNotAbort ==
    (Handled("get_tournament_matches") /\ calls # <<>>
        /\ \E i \in 1..Len(calls) : UpstreamAt(args.upstream, calls[i]) = NetworkFailure)
    => /\ resp.status = 200
       /\ calls[Len(calls)] = M_qs020
       /\ \A e \in args.upstream :
            AnsweredWithMatch(e.outcome)
                => \E k \in 1..Len(resp.body.matches) : resp.body.matches[k].key = e.mid

\* C2: for a tournament identifier that resolves, whatever its stored draw size
\* and whatever the upstream answers, get_tournament_matches answers 200 with a
\* matches mapping.
C2_AlwaysOk ==
    (Handled("get_tournament_matches") /\ TournamentResolves)
    => resp.status = 200 /\ "matches" \in DOMAIN resp.body

\* C3: the keys of the matches mapping of a 200 answer are exactly the
\* candidate identifiers (main draw of the draw size, then 20 qualifiers) the
\* upstream answered with a match, each once, and each maps to the payload
\* (flatten false) or to flatten_match_data of the payload (flatten true).
C3_KeysAreFoundCandidates ==
    (Handled("get_tournament_matches") /\ resp.status = 200)
    => LET ids == CandidateIds(DrawSizeOfResponse)
           found == {ids[i] : i \in {j \in 1..Len(ids) :
                                        AnsweredWithMatch(UpstreamAt(args.upstream, ids[j]))}}
           matches == resp.body.matches
       IN  /\ {matches[k].key : k \in 1..Len(matches)} = found
           /\ Len(matches) = Cardinality(found)
           /\ \A k \in 1..Len(matches) :
                LET payload == UpstreamAt(args.upstream, matches[k].key).body
                IN  matches[k].val = IF args.flatten THEN flatten_match_data(payload)
                                     ELSE payload

\* A flattened 200 answer with one match of the legacy shape, while another
\* identifier was answered with a placeholder.
C3_Witness ==
    /\ Handled("get_tournament_matches")
    /\ resp.status = 200
    /\ args.flatten
    /\ Len(resp.body.matches) = 1
    /\ resp.body.matches[1].key = M_qs020
    /\ resp.body.matches[1].val.d.match_id = PStr(M_ms003)
    /\ [mid |-> M_ms001, outcome |-> JsonResponse(200, PlaceholderPayload)] \in args.upstream

\* The request just handled went through load_tournament_registry.
UsesRegistry == args.fn \in {"get_tournament_matches", "get_single_match"}

\* C7: once the registry is loaded, no request replaces it or opens the file
\* again, and no request fails for the file being missing or invalid; while the
\* file is missing or invalid a request answers 500 and leaves the cache unset;
\* the first request with a readable file sets the cache to the file's mapping.
C7_LoadedOnce ==
    [][/\ cache # None => cache' = cache /\ (pc' = "responded" => ~opened')
       /\ (cache # None /\ pc' = "responded" /\ UsesRegistry')
            => resp' \notin {ErrorResponse(500, "Missing data file"),
                             ErrorResponse(500, "Invalid JSON")}
       /\ (cache = None /\ pc' = "responded" /\ UsesRegistry' /\ file.st # "ok")
            => /\ cache' = None
               /\ resp' = ErrorResponse(500, IF file.st = "missing" THEN "Missing data file"
                                             ELSE "Invalid JSON")
       /\ (cache = None /\ pc' = "responded" /\ UsesRegistry' /\ file.st = "ok")
            => cache' = Loaded(RegistryOfItems(file.items, <<>>)) /\ opened'
      ]_vars

\* A request answered from the cache after the file has been removed.
C7_Witness ==
    /\ pc = "responded"
    /\ UsesRegistry
    /\ file.st = "missing"
    /\ cache = Loaded(RegistryOfItems(RegistryFileA, <<>>))
    /\ resp.status = 200
    /\ ~opened

\* C10: get_single_match answers 404 exactly when the tournament does not
\* resolve or the match is not found upstream (a status other than 200, a body
\* that is no JSON, a payload without match identifier); otherwise it answers
\* 200 with the payload or its flattened form; it answers nothing else.
C10_SingleMatchStatus ==
    (Handled("get_single_match") /\ RegistryLoaded)
    => LET outcome == UpstreamAt(args.upstream, args.match_id)
           notFound == outcome.kind = "response" /\ ~AnsweredWithMatch(outcome)
       IN  /\ resp.status \in {200, 404}
           /\ resp.status = 404 <=> (~TournamentResolves \/ notFound)
           /\ resp.status = 200 =>
                resp.body.match_data = IF args.flatten THEN flatten_match_data(outcome.body)
                                       ELSE outcome.body

(***************************************************************************)
(* Properties of the head-to-head route.                                   *)
(***************************************************************************)
\* The code is made of ASCII letters and digits only, at least one.
IsPlayerCode(s) == Len(s) > 0 /\ \A k \in 1..Len(s) : IsAsciiAlnum(s[k])

\* C8: when either player code is not made only of ASCII letters and digits,
\* the head-to-head request is answered 400 and no outbound call is issued.
C8_InvalidCodeFailsFast ==
    (Handled("get_head_to_head")
        /\ (~IsPlayerCode(args.player1_id) \/ ~IsPlayerCode(args.player2_id)))
    => resp.status = 400 /\ calls = <<>>

\* C9: for valid player codes, flatten or not, a network failure is answered
\* 502 "request failed", an upstream 404 is answered 404, another status than
\* 200 is answered 502 with that status, a 200 whose body is no JSON is answered
\* 502 "invalid JSON", and only a 200 with a JSON body is answered 200.
C9_OutcomesReported ==
    (Handled("get_head_to_head")
        /\ IsPlayerCode(args.player1_id) /\ IsPlayerCode(args.player2_id))
    => LET o == args.outcome
       IN  /\ o.kind = "failure"
                => resp = ErrorResponse(502, "Upstream ATP request failed")
           /\ (o.kind = "response" /\ o.status = 404)
                => resp = ErrorResponse(404, "Head-to-head not found")
           /\ (o.kind = "response" /\ o.status \notin {200, 404})
                => resp = [status |-> 502,
                           body |-> [detail |-> "Upstream ATP error (status N)",
                                     upstream_status |-> o.status]]
           /\ (o.kind = "response" /\ o.status = 200 /\ ~o.json)
                => resp = ErrorResponse(502, "Upstream ATP returned invalid JSON")
           /\ resp.status = 200 => (o.kind = "response" /\ o.status = 200 /\ o.json)

\* With flatten asked for, a 200 whose body is no JSON has been answered 502,
\* after the call was issued.
C9_Witness ==
    /\ Handled("get_head_to_head")
    /\ IsPlayerCode(args.player1_id) /\ IsPlayerCode(args.player2_id)
    /\ args.flatten
    /\ args.outcome = TextResponse(200)
    /\ resp = ErrorResponse(502, "Upstream ATP returned invalid JSON")
    /\ Len(calls) = 1

====
